---- MODULE Spec2Model ----
(***************************************************************************)
(* A model of DataStore.py: the scheduling gate, the ticker source, the    *)
(* batched download with its retry pass, and the serializer; and of        *)
(* optimize_pickle.py, which re-saves the file the serializer wrote.       *)
(*                                                                         *)
(* Strings are sequences of one-character strings, so that startswith,     *)
(* endswith, slicing and concatenation are computed as Python computes     *)
(* them.  Prices are integers, in thousandths.                             *)
(***************************************************************************)
EXTENDS Integers, Sequences, FiniteSets, TLC

VARIABLES
    pc,              \* position of the main thread in __main__ / download_batch_stocks
    sched,           \* what check_should_run saw and returned (NoSched before the call)
    BATCH_SIZE,      \* module-level configuration, line 11
    MAX_WORKERS,     \* module-level configuration, line 12
    csv,             \* whether the stock list file was read: "not read", "error", "ok"
    tickers,         \* __main__'s tickers (the list download_batch_stocks is given)
    all_data,        \* download_batch_stocks: symbol -> table
    failed,          \* download_batch_stocks: list of symbols
    retry_failed,    \* download_batch_stocks: list of symbols of the retry pass
    batch_idx,       \* index of the batch loop
    futures,         \* future_to_ticker of the executor that is open, in submission order
    save_path,       \* what save_stock_data returned (NotSaved before the call)
    disk,            \* the result file of the day on disk
    loaded_data,     \* __main__'s loaded_data
    hist,            \* history of the run (observations only, never read by the program)
    fate,            \* the outcome fixed for every fetch call (NoFate: the provider is free)
    opt_pc,          \* optimize_pickle.py: position of main
    args,            \* optimize_pickle.py: the parsed command line
    original,        \* the file at original_path
    optimized,       \* the file at optimized_path
    gz,              \* the file at gz_path
    success,         \* what optimize_pickle returned
    status,          \* the exit status of optimize_pickle.py
    opt_hist,        \* history of the optimize_pickle call (observations only)
    plk_pc,          \* plk.py: position of __main__
    plk_data,        \* plk.py: what load_and_optimize returned
    plk_hist,        \* history of the load_and_optimize call (observations only)
    git_pc,          \* git_auto_fixer.py: position of main
    argv,            \* git_auto_fixer.py: sys.argv[1:]
    branch,          \* fix_divergent_branches: branch
    answer,          \* the line input() read
    response,        \* fix_divergent_branches: response
    commands,        \* the shell commands run_command has run, with their results
    git_exit         \* the exit status of git_auto_fixer.py

\* DataStore.py
runvars == << pc, sched, BATCH_SIZE, MAX_WORKERS, csv, tickers, all_data, failed,
              retry_failed, batch_idx, futures, save_path, disk, loaded_data, hist, fate >>

\* optimize_pickle.py (plk.py reads and writes the two files as well)
toolvars == << opt_pc, args, original, optimized, gz, success, status, opt_hist >>

\* plk.py
plkvars == << plk_pc, plk_data, plk_hist >>

\* git_auto_fixer.py
gitvars == << git_pc, argv, branch, answer, response, commands, git_exit >>

vars == << runvars, toolvars, plkvars, gitvars >>

-----------------------------------------------------------------------------
(* Bounds of the model *)

\* The longest SYMBOL column of a stock list file.
MaxTickers == 3
\* BATCH_SIZE (158 in line 11) is any of 1..MaxBatchSize.
MaxBatchSize == 2
\* MAX_WORKERS (14 in line 12) is any of 1..MaxWorkers.
MaxWorkers == 2
\* The longest ticker list of a run whose fetch outcomes are fixed beforehand.
MaxFated == 3
\* The longest list and the largest batch size the delay test of line 127 is
\* computed for by itself.
MaxLength == 12

\* The most extensions a value of --output of optimize_pickle.py has.
MaxSuffixes == 2

-----------------------------------------------------------------------------
(* Program constants *)

ACTUAL_RUN_HOUR == 9
ACTUAL_RUN_MINUTE == 29
CUTOFF_HOUR == 10
CUTOFF_MINUTE == 0

\* Python's None as the data of a fetch result (a value no table equals).
None == [none |-> TRUE]
\* check_should_run has not been called, or its frame is gone.
NoSched == [called |-> FALSE]
\* A stock list file that pd.read_csv or df["SYMBOL"] raises on.
ReadError == [status |-> "error", symbols |-> << >>]
\* save_stock_data: not called yet, or returned None.
NotSaved == "not saved"
NonePath == "None"
\* No result file of the day on disk.
NoFile == [exists |-> FALSE]
\* __main__ has not assigned loaded_data.
NotLoaded == [assigned |-> FALSE]

-----------------------------------------------------------------------------
(* Strings *)

NS == << ".", "N", "S" >>
CARET == << "^" >>

\* str.startswith
startswith(t, p) ==
    /\ Len(t) >= Len(p)
    /\ SubSeq(t, 1, Len(p)) = p

\* str.endswith
endswith(t, p) ==
    /\ Len(t) >= Len(p)
    /\ SubSeq(t, Len(t) - Len(p) + 1, Len(t)) = p

\* The SYMBOL values a stock list file may hold: an equity without and with
\* the exchange suffix, and an index.
RawSymbols ==
    { << "D" >>, << "D", ".", "N", "S" >>, << "^", "N" >> }

\* The denylist of known-delisted symbols the specification speaks of (no
\* line of the source holds one).
Denylist == { << "D" >> }

\* Sequences over S of length at most n.
RECURSIVE SeqsUpTo(_, _)
SeqsUpTo(S, n) ==
    IF n = 0 THEN { << >> }
    ELSE LET shorter == SeqsUpTo(S, n - 1)
         IN  shorter \cup { Append(q, x) : q \in { r \in shorter : Len(r) = n - 1 }, x \in S }

RECURSIVE Count(_, _)
Count(q, x) ==
    IF q = << >> THEN 0
    ELSE (IF Head(q) = x THEN 1 ELSE 0) + Count(Tail(q), x)

Range(q) == { q[i] : i \in 1..Len(q) }

-----------------------------------------------------------------------------
(* check_should_run, lines 23-62 *)

\* Variant of check_should_run that returns at once before the run time.
check_should_run_no_wait(weekday, hour, minute, force_run) ==
    LET current_time_minutes == hour * 60 + minute
        cutoff_minutes == CUTOFF_HOUR * 60 + CUTOFF_MINUTE
    IN  IF weekday >= 5 THEN [result |-> FALSE, slept |-> 0]
        ELSE IF force_run THEN [result |-> TRUE, slept |-> 0]
        ELSE [result |-> current_time_minutes < cutoff_minutes, slept |-> 0]

\* The value returned and the minutes slept before returning.
check_should_run(weekday, hour, minute, force_run) ==
    LET current_time_minutes == hour * 60 + minute
        actual_run_minutes == ACTUAL_RUN_HOUR * 60 + ACTUAL_RUN_MINUTE
        cutoff_minutes == CUTOFF_HOUR * 60 + CUTOFF_MINUTE
    IN  IF weekday >= 5 THEN [result |-> FALSE, slept |-> 0]
        ELSE IF force_run THEN [result |-> TRUE, slept |-> 0]
        ELSE IF current_time_minutes < actual_run_minutes
             THEN [result |-> TRUE, slept |-> actual_run_minutes - current_time_minutes]
        ELSE IF actual_run_minutes <= current_time_minutes
                /\ current_time_minutes < cutoff_minutes
             THEN [result |-> TRUE, slept |-> 0]
        ELSE [result |-> FALSE, slept |-> 0]

-----------------------------------------------------------------------------
(* read_stock_list, lines 64-73 *)

\* Line 69: the suffix rule applied to one symbol.
AddSuffix(t) ==
    IF startswith(t, CARET) \/ endswith(t, NS) THEN t ELSE t \o NS

\* The stock list files that read without error.
StockListFiles ==
    { [status |-> "ok", symbols |-> q] : q \in SeqsUpTo(RawSymbols, MaxTickers) }

\* The value returned for what pd.read_csv met.
read_stock_list(file) ==
    IF file.status # "ok" THEN << >>
    ELSE [i \in 1..Len(file.symbols) |-> AddSuffix(file.symbols[i])]

-----------------------------------------------------------------------------
(* The provider (yfinance) and download_single_stock, lines 75-90 *)

\* A table (DataFrame): its index (day numbers) with the time zone of the
\* index, its columns, and its rows of prices in thousandths.
EmptyTable ==
    [index |-> << >>, tz |-> "Asia/Kolkata", columns |-> << "Close" >>, data |-> << >>]

\* A table as the provider returns it for a daily interval under
\* rounding=True (line 83).
ProviderTable ==
    [index |-> << 1, 2 >>, tz |-> "Asia/Kolkata", columns |-> << "Close" >>,
     data |-> << << 1230 >>, << 4560 >> >>]

\* What one call of ticker.history can do: return a table with rows, return
\* an empty table, raise an error, or raise at the timeout.  The timeout
\* handed over in line 84 bounds each wait for the server, not the call: a
\* call may also return its table after more than REQUEST_TIMEOUT seconds
\* (overran).
ProviderOutcomes ==
    { [kind |-> "table", table |-> ProviderTable, overran |-> FALSE],
      [kind |-> "table", table |-> ProviderTable, overran |-> TRUE],
      [kind |-> "table", table |-> EmptyTable, overran |-> FALSE],
      [kind |-> "error", table |-> EmptyTable, overran |-> FALSE],
      [kind |-> "timeout", table |-> EmptyTable, overran |-> TRUE] }

\* The call has not ended.
NoOutcome == [kind |-> "none"]

\* round(x, 2) of a price in thousandths (half to even).
Round2(x) ==
    LET q == x \div 10
        r == x % 10
    IN  IF r < 5 THEN q * 10
        ELSE IF r > 5 THEN (q + 1) * 10
        ELSE IF q % 2 = 0 THEN q * 10 ELSE (q + 1) * 10

\* DataFrame.round(2)
round2(table) ==
    [table EXCEPT !.data =
        [i \in 1..Len(table.data) |->
            [j \in 1..Len(table.data[i]) |-> Round2(table.data[i][j])]]]

\* Variant of download_single_stock without the except clause of line 88.
download_single_stock_no_except(stock_code, outcome) ==
    IF outcome.kind = "table" /\ outcome.table.index # << >>
    THEN [raised |-> FALSE, stock_code |-> stock_code, data |-> round2(outcome.table)]
    ELSE IF outcome.kind = "table"
    THEN [raised |-> FALSE, stock_code |-> stock_code, data |-> None]
    ELSE [raised |-> TRUE, stock_code |-> stock_code, data |-> None]

\* What the call leaves in its future: an exception (raised) or the returned
\* pair (stock_code, data).  Lines 77-87 are inside the try, line 88 catches
\* what the provider raises, line 90 returns the pair without data.
download_single_stock(stock_code, outcome) ==
    IF outcome.kind = "table" /\ outcome.table.index # << >>
    THEN [raised |-> FALSE, stock_code |-> stock_code, data |-> round2(outcome.table)]
    ELSE [raised |-> FALSE, stock_code |-> stock_code, data |-> None]

-----------------------------------------------------------------------------
(* download_batch_stocks, lines 92-157 *)

\* tickers[a:b] of Python
Slice(q, a, b) ==
    LET hi == IF b < Len(q) THEN b ELSE Len(q)
    IN  IF a >= hi THEN << >> ELSE SubSeq(q, a + 1, hi)

\* all_data[stock_code] = data
Put(map, k, v) ==
    [x \in DOMAIN map \cup {k} |-> IF x = k THEN v ELSE map[x]]

EmptyMap == [x \in {} |-> None]

\* executor.submit for each ticker of the list, lines 109-112 and 137-140
Submit(list) ==
    [i \in 1..Len(list) |-> [ticker |-> list[i], state |-> "queued", result |-> None,
                            outcome |-> NoOutcome]]

Running(fs) == { i \in 1..Len(fs) : fs[i].state = "running" }

Queued(fs) == { i \in 1..Len(fs) : fs[i].state = "queued" }

\* Variant of TakenUp for an executor without a limit on its threads.
TakenUp_all(fs, max_workers) == Queued(fs)

\* The queued calls the executor's threads take up: the executor runs at most
\* max_workers threads (lines 108, 136), each takes the oldest queued call as
\* soon as it is free.
TakenUp(fs, max_workers) ==
    LET free == max_workers - Cardinality(Running(fs))
        queued == Queued(fs)
    IN  IF queued = {} \/ free <= 0 THEN {}
        ELSE { i \in queued : Cardinality({ j \in queued : j < i }) < free }

\* download_single_stock begins for the calls taken up.
StartWorkers(fs, max_workers) ==
    LET taken == TakenUp(fs, max_workers)
    IN  IF taken = {} THEN fs
        ELSE [i \in 1..Len(fs) |->
                 IF i \in taken THEN [fs[i] EXCEPT !.state = "running"] ELSE fs[i]]

\* The calls of download_single_stock counted per symbol.
CountFetches(fetches, fs, started) ==
    IF started = {} THEN fetches
    ELSE [s \in DOMAIN fetches |->
             fetches[s] + Cardinality({ i \in started : fs[i].ticker = s })]

\* A future whose result the main thread has taken.
Collected(f) ==
    [f EXCEPT !.state = "collected", !.result = None, !.outcome = NoOutcome]

\* Variant of AllCollected that is content with one result taken.
AllCollected_first == \E i \in 1..Len(futures) : futures[i].state = "collected"

\* Lines 113-122, 141-148: as_completed is exhausted, the main thread has taken
\* the result of every future of the executor.
AllCollected == \A i \in 1..Len(futures) : futures[i].state = "collected"

Symbols == { AddSuffix(r) : r \in RawSymbols }

NoHistory ==
    [ fetches |-> [s \in Symbols |-> 0],   \* calls of download_single_stock per symbol
      gotData |-> {},                      \* symbols some call returned a table for
      batches |-> << >>,                   \* the batches formed, in loop order
      delays |-> 0,                        \* time.sleep(BATCH_DELAY) calls
      batchPhaseOver |-> FALSE,            \* the batch loop has ended
      failedAtBatchEnd |-> << >>,          \* failed when the batch loop ended
      retryPasses |-> 0,                   \* retry passes started
      retryFetches |-> 0,                  \* of them, calls made in the retry pass
      saveOutcome |-> "none" ]             \* what the file system did to save_stock_data

\* No outcome is fixed beforehand: every call of the provider may end in any way.
NoFate == [fixed |-> FALSE]

\* Lines 85-87: the provider's answer is a table with rows.
HasRows(outcome) == outcome.kind = "table" /\ outcome.table.index # << >>

\* Future i is the n-th call for its symbol in its executor.
NthOfSymbol(fs, i) == Cardinality({ j \in 1..i : fs[j].ticker = fs[i].ticker })

\* Whether the call of future i is to get rows, under a fixed fate: the calls
\* of the batch phase are told apart by their place in the ticker list, the
\* calls of the retry pass by their symbol and their number among the calls
\* for that symbol.
Fated(i) ==
    IF pc = "batch_drain"
    THEN fate.batch[batch_idx * BATCH_SIZE + i]
    ELSE fate.retry[futures[i].ticker][NthOfSymbol(futures, i)]

\* The ways the provider call of future i may end.  A fixed fate tells the
\* calls that get a table with rows from the calls that raise: lines 85-90
\* treat an empty table as they treat an exception, and a late table as one
\* in time.
OutcomesOf(i) ==
    IF ~fate.fixed THEN ProviderOutcomes
    ELSE { o \in ProviderOutcomes :
             /\ HasRows(o) = Fated(i)
             /\ o.kind = (IF Fated(i) THEN "table" ELSE "error")
             /\ ~o.overran }

\* The entries of the list whose batch-phase call gets no rows, for one symbol.
FailCount(list, batch, s) ==
    Cardinality({ p \in 1..Len(list) : list[p] = s /\ ~batch[p] })

\* Every way of fixing the outcome of every fetch call of a run on the list:
\* one outcome per list entry, and one per retry call (as many for a symbol
\* as entries of it fail in the batch phase).
Fates(list) ==
    UNION { { [fixed |-> TRUE, batch |-> b, retry |-> r] :
                r \in { x \in [Symbols -> SeqsUpTo(BOOLEAN, Len(list))] :
                           \A s \in Symbols : Len(x[s]) = FailCount(list, b, s) } } :
            b \in [1..Len(list) -> BOOLEAN] }

\* optimize_pickle.py is not run.
NoArgs == [parsed |-> FALSE]
NotReturned == [returned |-> FALSE]
NotExited == [exited |-> FALSE]
NoOptHistory == [called |-> FALSE]

\* plk.py is not run.
NoPlkHistory == [called |-> FALSE]

PlkIdle ==
    /\ plk_pc = "idle"
    /\ plk_data = NotReturned
    /\ plk_hist = NoPlkHistory

\* git_auto_fixer.py is not run.
GitIdle ==
    /\ git_pc = "idle"
    /\ argv = << >>
    /\ branch = << >>
    /\ answer = << >>
    /\ response = << >>
    /\ commands = << >>
    /\ git_exit = NotExited

ToolIdle ==
    /\ PlkIdle
    /\ GitIdle
    /\ opt_pc = "idle"
    /\ args = NoArgs
    /\ original = NoFile
    /\ optimized = NoFile
    /\ gz = NoFile
    /\ success = NotReturned
    /\ status = NotExited
    /\ opt_hist = NoOptHistory

Init ==
    /\ ToolIdle
    /\ fate = NoFate
    /\ pc = "start"
    /\ sched = NoSched
    /\ BATCH_SIZE \in 1..MaxBatchSize
    /\ MAX_WORKERS \in 1..MaxWorkers
    /\ csv = "not read"
    /\ tickers = << >>
    /\ all_data = EmptyMap
    /\ failed = << >>
    /\ retry_failed = << >>
    /\ batch_idx = 0
    /\ futures = << >>
    /\ save_path = NotSaved
    /\ disk = NoFile
    /\ loaded_data = NotLoaded
    /\ hist = NoHistory

\* Line 206: check_should_run() with the clock and the environment it reads.
CheckShouldRun ==
    /\ pc = "start"
    /\ \E weekday \in 0..6, hour \in 0..23, minute \in 0..59, force_run \in BOOLEAN :
          sched' = [weekday |-> weekday, hour |-> hour, minute |-> minute,
                    force_run |-> force_run,
                    returned |-> check_should_run(weekday, hour, minute, force_run)]
    /\ pc' = "checked"
    /\ UNCHANGED << fate, toolvars, plkvars, gitvars >>
    /\ UNCHANGED << BATCH_SIZE, MAX_WORKERS, csv, tickers, all_data, failed,
                    retry_failed, batch_idx, futures, save_path, disk, loaded_data, hist >>

\* Lines 206-208: exit(0) unless check_should_run returned True.
MainGate ==
    /\ pc = "checked"
    /\ pc' = IF sched.returned.result THEN "read_list" ELSE "exit"
    /\ sched' = NoSched
    /\ UNCHANGED << fate, toolvars, plkvars, gitvars >>
    /\ UNCHANGED << BATCH_SIZE, MAX_WORKERS, csv, tickers, all_data, failed,
                    retry_failed, batch_idx, futures, save_path, disk, loaded_data, hist >>

\* Line 210: tickers = read_stock_list()
ReadStockList ==
    /\ pc = "read_list"
    /\ \E file \in {ReadError} \cup StockListFiles :
          /\ csv' = file.status
          /\ tickers' = read_stock_list(file)
    /\ pc' = "have_tickers"
    /\ UNCHANGED << fate, toolvars, plkvars, gitvars >>
    /\ UNCHANGED << sched, BATCH_SIZE, MAX_WORKERS, all_data, failed,
                    retry_failed, batch_idx, futures, save_path, disk, loaded_data, hist >>

\* Variant of NoTickers that never holds.
NoTickers_never(list) == Len(list) < 0

\* Line 211: if not tickers
NoTickers(list) == list = << >>

\* Lines 211-212: nothing to download.
MainEmpty ==
    /\ pc = "have_tickers"
    /\ NoTickers(tickers)
    /\ pc' = "done"
    /\ UNCHANGED << fate, toolvars, plkvars, gitvars >>
    /\ UNCHANGED << sched, BATCH_SIZE, MAX_WORKERS, csv, tickers, all_data, failed,
                    retry_failed, batch_idx, futures, save_path, disk, loaded_data, hist >>

\* Lines 217 and 94-98: download_batch_stocks is entered.
BeginDownload ==
    /\ pc = "have_tickers"
    /\ ~NoTickers(tickers)
    /\ all_data' = EmptyMap
    /\ failed' = << >>
    /\ batch_idx' = 0
    /\ pc' = "batch_loop"
    /\ UNCHANGED << fate, toolvars, plkvars, gitvars >>
    /\ UNCHANGED << sched, BATCH_SIZE, MAX_WORKERS, csv, tickers,
                    retry_failed, futures, save_path, disk, loaded_data, hist >>

\* Line 100: the start of batch number batch_idx, from range(0, total, BATCH_SIZE).
batch_start == batch_idx * BATCH_SIZE

\* Variant of Batch whose slice ends one element early.
Batch_short(list, start, size) == Slice(list, start, start + size - 1)

\* Line 101: batch = tickers[batch_start:batch_start+BATCH_SIZE]
Batch(list, start, size) == Slice(list, start, start + size)

\* Variant of DelayAfter that sleeps after every batch.
DelayAfter_every(idx, total, size) == idx * size < total

\* Line 127: a delay follows this batch.
DelayAfter(idx, total, size) == idx < (total - 1) \div size

\* Variant of RetryNeeded that skips the retry pass for two or more failures.
RetryNeeded_below_two(list) == list # << >> /\ Len(list) < 2

\* Line 131: if failed
RetryNeeded(list) == list # << >>

\* Variant of RetryTargets that submits the whole ticker list again.
RetryTargets_all(list, failed_list) == list

\* Line 139: for ticker in failed
RetryTargets(list, failed_list) == failed_list

\* Variant of CollectResult that empties the list when a table arrives.
CollectResult_forgetful(result, map, list) ==
    IF result.data # None
    THEN [map |-> Put(map, result.stock_code, result.data), list |-> << >>]
    ELSE [map |-> map, list |-> Append(list, result.stock_code)]

\* Variant of CollectResult that drops a result without data.
CollectResult_drop(result, map, list) ==
    IF result.data # None
    THEN [map |-> Put(map, result.stock_code, result.data), list |-> list]
    ELSE [map |-> map, list |-> list]

\* Lines 114-120 and 142-146: one drained result goes to the mapping or to the list.
CollectResult(result, map, list) ==
    IF result.data # None
    THEN [map |-> Put(map, result.stock_code, result.data), list |-> list]
    ELSE [map |-> map, list |-> Append(list, result.stock_code)]

\* Lines 100-112: the next batch is formed and submitted to a new executor.
SubmitBatch ==
    /\ pc = "batch_loop"
    /\ batch_start < Len(tickers)
    /\ LET batch == Batch(tickers, batch_start, BATCH_SIZE)
           fs == Submit(batch)
       IN  /\ futures' = StartWorkers(fs, MAX_WORKERS)
           /\ hist' = [hist EXCEPT
                  !.batches = Append(@, batch),
                  !.fetches = CountFetches(@, fs, TakenUp(fs, MAX_WORKERS))]
    /\ pc' = "batch_drain"
    /\ UNCHANGED << fate, toolvars, plkvars, gitvars >>
    /\ UNCHANGED << sched, BATCH_SIZE, MAX_WORKERS, csv, tickers, all_data, failed,
                    retry_failed, batch_idx, save_path, disk, loaded_data >>

\* Lines 77-90: the provider call ends and download_single_stock leaves its
\* result in the future; the thread takes up the oldest queued call.
WorkerFinish(i) ==
    /\ pc \in {"batch_drain", "retry_drain"}
    /\ futures[i].state = "running"
    /\ \E outcome \in OutcomesOf(i) :
          LET result == download_single_stock(futures[i].ticker, outcome)
              fs == [futures EXCEPT ![i].state = "done",
                                    ![i].result = result,
                                    ![i].outcome = outcome]
              started == TakenUp(fs, MAX_WORKERS)
          IN  /\ futures' = StartWorkers(fs, MAX_WORKERS)
              /\ hist' = [hist EXCEPT
                     !.gotData = IF ~result.raised /\ result.data # None
                                 THEN @ \cup {futures[i].ticker} ELSE @,
                     !.fetches = CountFetches(@, fs, started),
                     !.retryFetches = IF pc = "retry_drain"
                                      THEN @ + Cardinality(started) ELSE @]
    /\ UNCHANGED << fate, toolvars, plkvars, gitvars >>
    /\ UNCHANGED << pc, sched, BATCH_SIZE, MAX_WORKERS, csv, tickers, all_data, failed,
                    retry_failed, batch_idx, save_path, disk, loaded_data >>

\* Lines 113-120: as_completed yields a finished future and the main thread
\* takes its result.  An exception left in the future is raised again by
\* future.result() and ends the run.
Collect(i) ==
    /\ pc = "batch_drain"
    /\ futures[i].state = "done"
    /\ futures' = [futures EXCEPT ![i] = Collected(@)]
    /\ LET result == futures[i].result
           got == CollectResult(result, all_data, failed)
       IN  IF result.raised
           THEN /\ pc' = "crashed"
                /\ UNCHANGED << all_data, failed, hist >>
           ELSE /\ pc' = pc
                /\ all_data' = got.map
                /\ failed' = got.list
                /\ hist' = hist
    /\ UNCHANGED << fate, toolvars, plkvars, gitvars >>
    /\ UNCHANGED << sched, BATCH_SIZE, MAX_WORKERS, csv, tickers,
                    retry_failed, batch_idx, save_path, disk, loaded_data >>

\* Lines 122-128: the executor is closed, the delay is slept when another
\* batch follows, and the loop goes on.
BatchEnd ==
    /\ pc = "batch_drain"
    /\ AllCollected
    /\ futures' = << >>
    /\ hist' = [hist EXCEPT !.delays =
                   IF DelayAfter(batch_idx, Len(tickers), BATCH_SIZE) THEN @ + 1 ELSE @]
    /\ batch_idx' = batch_idx + 1
    /\ pc' = "batch_loop"
    /\ UNCHANGED << fate, toolvars, plkvars, gitvars >>
    /\ UNCHANGED << sched, BATCH_SIZE, MAX_WORKERS, csv, tickers, all_data, failed,
                    retry_failed, save_path, disk, loaded_data >>

\* Line 100: range(0, total, BATCH_SIZE) is exhausted.
BatchLoopEnd ==
    /\ pc = "batch_loop"
    /\ ~(batch_start < Len(tickers))
    /\ pc' = "retry_check"
    /\ hist' = [hist EXCEPT !.batchPhaseOver = TRUE, !.failedAtBatchEnd = failed]
    /\ UNCHANGED << fate, toolvars, plkvars, gitvars >>
    /\ UNCHANGED << sched, BATCH_SIZE, MAX_WORKERS, csv, tickers, all_data, failed,
                    retry_failed, batch_idx, futures, save_path, disk, loaded_data >>

\* Lines 131-140: the retry pass submits the failed list to a new executor.
RetrySubmit ==
    /\ pc = "retry_check"
    /\ RetryNeeded(failed)
    /\ retry_failed' = << >>
    /\ LET fs == Submit(RetryTargets(tickers, failed))
       IN  /\ futures' = StartWorkers(fs, MAX_WORKERS)
           /\ hist' = [hist EXCEPT
                  !.retryPasses = @ + 1,
                  !.fetches = CountFetches(@, fs, TakenUp(fs, MAX_WORKERS)),
                  !.retryFetches = @ + Cardinality(TakenUp(fs, MAX_WORKERS))]
    /\ pc' = "retry_drain"
    /\ UNCHANGED << fate, toolvars, plkvars, gitvars >>
    /\ UNCHANGED << sched, BATCH_SIZE, MAX_WORKERS, csv, tickers, all_data, failed,
                    batch_idx, save_path, disk, loaded_data >>

\* Lines 131, 154-157: nothing failed, download_batch_stocks returns.
RetrySkip ==
    /\ pc = "retry_check"
    /\ ~RetryNeeded(failed)
    /\ pc' = "returned"
    /\ UNCHANGED << fate, toolvars, plkvars, gitvars >>
    /\ UNCHANGED << sched, BATCH_SIZE, MAX_WORKERS, csv, tickers, all_data, failed,
                    retry_failed, batch_idx, futures, save_path, disk, loaded_data, hist >>

\* Lines 141-146: the main thread takes a result of the retry pass.
CollectRetry(i) ==
    /\ pc = "retry_drain"
    /\ futures[i].state = "done"
    /\ futures' = [futures EXCEPT ![i] = Collected(@)]
    /\ LET result == futures[i].result
           got == CollectResult(result, all_data, retry_failed)
       IN  IF result.raised
           THEN /\ pc' = "crashed"
                /\ UNCHANGED << all_data, retry_failed, hist >>
           ELSE /\ pc' = pc
                /\ all_data' = got.map
                /\ retry_failed' = got.list
                /\ hist' = hist
    /\ UNCHANGED << fate, toolvars, plkvars, gitvars >>
    /\ UNCHANGED << sched, BATCH_SIZE, MAX_WORKERS, csv, tickers,
                    failed, batch_idx, save_path, disk, loaded_data >>

\* Lines 148-157: the retry pass ends and download_batch_stocks returns
\* all_data and the list of the symbols that failed again.
RetryEnd ==
    /\ pc = "retry_drain"
    /\ AllCollected
    /\ futures' = << >>
    /\ failed' = retry_failed
    /\ pc' = "returned"
    /\ UNCHANGED << fate, toolvars, plkvars, gitvars >>
    /\ UNCHANGED << sched, BATCH_SIZE, MAX_WORKERS, csv, tickers, all_data,
                    retry_failed, batch_idx, save_path, disk, loaded_data, hist >>

-----------------------------------------------------------------------------
(* save_stock_data, lines 159-185 *)

\* Lines 163-165: the path of the result file of the day.
filepath == "results_pkl/stock_data_<ddmmyy>.pkl"

\* What the file system and the conversion can do during one call.
SaveOutcomes == { "ok", "makedirs fails", "convert fails", "open fails", "dump fails" }

\* Line 169
new_key(k) == IF endswith(k, NS) THEN SubSeq(k, 1, Len(k) - 3) ELSE k

\* Lines 171-176: the copy with a time zone on its index, as a "split" dict.
to_split(v) ==
    LET tz == IF v.tz = "naive" THEN "Asia/Kolkata" ELSE v.tz
    IN  [index |-> [i \in 1..Len(v.index) |-> [day |-> v.index[i], tz |-> tz]],
         columns |-> v.columns,
         data |-> v.data]

\* Line 170: hasattr(v, "to_dict").  Of the values here the tables have it;
\* a plain dict and the other objects do not.
has_to_dict(v) == "tz" \in DOMAIN v

\* Lines 170-178: what is stored for one value.
converted_value(v) == IF has_to_dict(v) THEN to_split(v) ELSE v

\* Lines 167-178.  Two keys with one new_key leave one entry (the mapping
\* here keeps no insertion order: the entry is that of one of them).
converted_data(stock_data) ==
    LET keys == { new_key(k) : k \in DOMAIN stock_data }
    IN  [nk \in keys |->
            converted_value(stock_data[CHOOSE k \in DOMAIN stock_data : new_key(k) = nk])]

\* The call for one behaviour of the file system: whether it raised, the
\* value it returned, and the file it left.
save_stock_data(stock_data, io, file) ==
    IF io = "makedirs fails"
    THEN [raised |-> TRUE, value |-> NonePath, file |-> file]
    ELSE IF io \in {"convert fails", "open fails"}
    THEN [raised |-> FALSE, value |-> NonePath, file |-> file]
    ELSE IF io = "dump fails"
    THEN [raised |-> FALSE, value |-> NonePath,
          file |-> [exists |-> TRUE, complete |-> FALSE, content |-> EmptyMap]]
    ELSE [raised |-> FALSE, value |-> filepath,
          file |-> [exists |-> TRUE, complete |-> TRUE,
                    content |-> converted_data(stock_data)]]

\* Line 218: save_path = save_stock_data(stock_data).  An exception that
\* leaves save_stock_data ends the run.
SaveStockData ==
    /\ pc = "returned"
    /\ \E io \in SaveOutcomes :
          LET r == save_stock_data(all_data, io, disk)
          IN  /\ disk' = r.file
              /\ hist' = [hist EXCEPT !.saveOutcome = io]
              /\ IF r.raised
                 THEN pc' = "crashed" /\ save_path' = save_path
                 ELSE pc' = "saved" /\ save_path' = r.value
    /\ UNCHANGED << fate, toolvars, plkvars, gitvars >>
    /\ UNCHANGED << sched, BATCH_SIZE, MAX_WORKERS, csv, tickers, all_data, failed,
                    retry_failed, batch_idx, futures, loaded_data >>

-----------------------------------------------------------------------------
(* load_stock_data, lines 187-202 *)

\* Variant of from_split that loses the time zone of the index.
from_split_naive(v) ==
    [index |-> [i \in 1..Len(v.index) |-> v.index[i].day],
     tz |-> "naive",
     columns |-> v.columns,
     data |-> v.data]

\* Line 197: pd.DataFrame(**v) of a "split" dict.
from_split(v) ==
    [index |-> [i \in 1..Len(v.index) |-> v.index[i].day],
     tz |-> IF v.index = << >> THEN "naive" ELSE v.index[1].tz,
     columns |-> v.columns,
     data |-> v.data]

\* Line 196: isinstance(v, dict) and set(v.keys()) == {"index", "columns", "data"}
is_split_dict(v) == DOMAIN v = { "index", "columns", "data" }

\* Lines 196-197: what is returned for one stored value.
loaded_value(v) == IF is_split_dict(v) THEN from_split(v) ELSE v

load_stock_data(file) ==
    IF ~file.exists THEN EmptyMap
    ELSE IF ~file.complete THEN EmptyMap
    ELSE [k \in DOMAIN file.content |-> loaded_value(file.content[k])]

\* Variant of ShouldLoad that loads whatever save_stock_data returned.
ShouldLoad_always(path) == path = path

\* Line 219: if save_path
ShouldLoad(path) == path # NonePath

\* Lines 219-223: the file is loaded back when save_stock_data returned a path.
LoadBack ==
    /\ pc = "saved"
    /\ loaded_data' =
          IF ShouldLoad(save_path)
          THEN [assigned |-> TRUE, loaded |-> TRUE, value |-> load_stock_data(disk)]
          ELSE [assigned |-> TRUE, loaded |-> FALSE, value |-> EmptyMap]
    /\ pc' = "done"
    /\ UNCHANGED << fate, toolvars, plkvars, gitvars >>
    /\ UNCHANGED << sched, BATCH_SIZE, MAX_WORKERS, csv, tickers, all_data, failed,
                    retry_failed, batch_idx, futures, save_path, disk, hist >>

-----------------------------------------------------------------------------
(* optimize_pickle.py *)

\* Line 30
EXPECTED_COLUMNS ==
    << "Open", "High", "Low", "Close", "Volume", "Dividends", "Stock Splits" >>

\* Line 31
DEFAULT_TZ == "Asia/Kolkata"

\* An object that is neither a table nor a dict.
OtherValue == [object |-> "text"]

\* A dict without the keys of the "split" format, of scalars: pd.DataFrame
\* raises on it.
PlainDict == [note |-> "text"]

\* A table pickled as it is: a naive index, a column that is not expected,
\* a price with a third decimal.
PickledTable ==
    [index |-> << 1 >>, tz |-> "naive", columns |-> << "Adj Close", "Close" >>,
     data |-> << << 7770, 1236 >> >>]

\* The value save_stock_data stores for a table of the provider.
GoodSplit ==
    [index |-> << [day |-> 1, tz |-> "Asia/Kolkata"], [day |-> 2, tz |-> "Asia/Kolkata"] >>,
     columns |-> << "Close" >>,
     data |-> << << 1230 >>, << 4560 >> >>]

\* A "split" dict whose rows do not fit its columns, with as many index
\* entries as columns as rows.
SquareSplit ==
    [index |-> << [day |-> 1, tz |-> "Asia/Kolkata"] >>,
     columns |-> << "Close" >>,
     data |-> << << 1230, 4560 >> >>]

\* A "split" dict whose rows do not fit its columns, with more index entries
\* than columns.
RaggedSplit ==
    [index |-> << [day |-> 1, tz |-> "Asia/Kolkata"], [day |-> 2, tz |-> "Asia/Kolkata"] >>,
     columns |-> << "Close" >>,
     data |-> << << 1230, 4560 >>, << 7890 >> >>]

\* The values a pickle holds under one key.
PickledValues ==
    { GoodSplit, PickledTable, SquareSplit, RaggedSplit, PlainDict, OtherValue }

\* The keys of a pickle that save_stock_data wrote.
PickledKeys == { new_key(s) : s \in Symbols }

\* Line 39
isinstance_DataFrame(v) == "tz" \in DOMAIN v

\* Line 41
isinstance_dict(v) == ~isinstance_DataFrame(v) /\ "object" \notin DOMAIN v

\* Line 43: set(v.keys()) >= {"index", "columns", "data"}
has_split_keys(v) == { "index", "columns", "data" } \subseteq DOMAIN v

\* Line 47: pd.DataFrame(v["data"], index=v["index"], columns=columns) raises
\* unless there is a row for every index entry and a cell for every column.
fits(v) ==
    /\ Len(v.data) = Len(v.index)
    /\ \A i \in 1..Len(v.data) : Len(v.data[i]) = Len(v.columns)

\* Line 47: the table of a "split" dict.
DataFrame_split(v) ==
    [index |-> [i \in 1..Len(v.index) |-> v.index[i].day],
     tz |-> IF v.index = << >> THEN "naive" ELSE v.index[1].tz,
     columns |-> v.columns,
     data |-> v.data]

\* Line 50: pd.DataFrame(v) of a dict of three lists raises unless they have
\* one length.
same_lengths(v) == Len(v.index) = Len(v.columns) /\ Len(v.columns) = Len(v.data)

\* Line 50: the table pandas then builds has the columns "index", "columns"
\* and "data" and the index 0, 1, ... (read as instants by line 65).
DataFrame_dict(v) ==
    [index |-> [i \in 1..Len(v.data) |-> i - 1],
     tz |-> "naive",
     columns |-> << "index", "columns", "data" >>,
     data |-> [i \in 1..Len(v.data) |-> << v.index[i], v.columns[i], v.data[i] >>]]

\* The cells of one row under the expected columns the table has, in the
\* expected order.
RECURSIVE Reordered(_, _, _)
Reordered(expected, columns, row) ==
    IF expected = << >> THEN << >>
    ELSE LET at == { j \in 1..Len(columns) : columns[j] = Head(expected) }
         IN  (IF at = {} THEN << >> ELSE << row[CHOOSE j \in at : TRUE] >>)
                \o Reordered(Tail(expected), columns, row)

\* Line 60: df.reindex(columns=EXPECTED_COLUMNS).  The expected columns the
\* table has not are NaN in every row (nan), the others keep their cells.
reindex(df) ==
    [index |-> df.index,
     tz |-> df.tz,
     columns |-> EXPECTED_COLUMNS,
     nan |-> { c \in Range(EXPECTED_COLUMNS) : c \notin Range(df.columns) },
     data |-> [i \in 1..Len(df.data) |-> Reordered(EXPECTED_COLUMNS, df.columns, df.data[i])]]

\* Lines 63-70
localize(df) == [df EXCEPT !.tz = IF @ = "naive" THEN DEFAULT_TZ ELSE @]

\* Lines 59-78
normalize(df) == round2(localize(reindex(df)))

\* Lines 34-78: whether the call raised, and the value it returned.
convert_value_to_df(v) ==
    IF isinstance_DataFrame(v)
    THEN [raised |-> FALSE, value |-> normalize(v)]
    ELSE IF isinstance_dict(v)
    THEN IF has_split_keys(v)
         THEN IF fits(v)
              THEN [raised |-> FALSE, value |-> normalize(DataFrame_split(v))]
              ELSE IF same_lengths(v)
              THEN [raised |-> FALSE, value |-> normalize(DataFrame_dict(v))]
              ELSE [raised |-> TRUE, value |-> None]
         ELSE [raised |-> FALSE, value |-> v]
    ELSE [raised |-> FALSE, value |-> v]

\* Variant of convert_or_keep that stores None for a value whose conversion
\* raised.
convert_or_keep_none(v) ==
    LET r == convert_value_to_df(v)
    IN  IF r.raised THEN None ELSE r.value

\* Lines 106-110: converted[k] for one value.
convert_or_keep(v) ==
    LET r == convert_value_to_df(v)
    IN  IF r.raised THEN v ELSE r.value

\* Lines 104-110
converted(data) == [k \in DOMAIN data |-> convert_or_keep(data[k])]

\* The paths of the command line: file names as lists of characters.
PKL == << ".", "p", "k", "l" >>
GZ == << ".", "g", "z" >>
SEP == << "/" >>
OPTIMIZED_TAG == << "_", "o", "p", "t", "i", "m", "i", "z", "e", "d" >>

\* The positional argument: the pickle DataStore.py has left.
OriginalPath == << "s" >> \o PKL

\* The values of --output: a name with up to MaxSuffixes extensions.  No one
\* of them is the path of the original.
RECURSIVE Suffixed(_)
Suffixed(n) ==
    IF n = 0 THEN { << "x" >> }
    ELSE Suffixed(n - 1) \cup { q \o e : q \in Suffixed(n - 1), e \in { PKL, GZ } }

OutputPaths == Suffixed(MaxSuffixes)

\* argparse leaves None in args.output when --output is not given; the test
\* of line 146 takes the empty string as it takes None.
NoOutput == << >>

\* The places of a character in a path.
Places(path, c) == { i \in 1..Len(path) : path[i] = c }

Last(S) == CHOOSE i \in S : \A j \in S : j <= i

\* os.path.basename and os.path.dirname
basename(path) ==
    IF Places(path, "/") = {} THEN path
    ELSE SubSeq(path, Last(Places(path, "/")) + 1, Len(path))

dirname(path) ==
    IF Places(path, "/") = {} THEN << >>
    ELSE SubSeq(path, 1, Last(Places(path, "/")) - 1)

\* os.path.splitext of a file name: the extension starts at the last dot,
\* unless the name has no dot or no character but dots before it.
splitext(name) ==
    LET dots == Places(name, ".")
        cut == Last(dots)
    IN  IF dots = {} \/ \A i \in 1..(Last(dots) - 1) : name[i] = "."
        THEN [base |-> name, ext |-> << >>]
        ELSE [base |-> SubSeq(name, 1, cut - 1), ext |-> SubSeq(name, cut, Len(name))]

\* os.path.join of a directory and a name
join(dir, name) == IF dir = << >> THEN name ELSE dir \o SEP \o name

\* str.replace: every occurrence of old, from the left, becomes new.
RECURSIVE replace(_, _, _)
replace(t, old, new) ==
    IF Len(t) < Len(old) THEN t
    ELSE IF startswith(t, old)
    THEN new \o replace(SubSeq(t, Len(old) + 1, Len(t)), old, new)
    ELSE << Head(t) >> \o replace(Tail(t), old, new)

\* Lines 145-150: the path of the optimized file.
optimized_path(original_path, output) ==
    IF output # NoOutput THEN output
    ELSE LET parts == splitext(basename(original_path))
             dir == IF dirname(original_path) # << >> THEN dirname(original_path)
                    ELSE << "." >>
         IN  join(dir, parts.base \o OPTIMIZED_TAG \o parts.ext)

\* Lines 122-124: the path of the gzipped copy.
gz_path(path) ==
    LET first == IF ~endswith(path, GZ) THEN path \o GZ ELSE path
    IN  IF ~endswith(first, PKL \o GZ)
        THEN IF endswith(first, PKL) THEN replace(first, PKL, PKL \o GZ)
             ELSE first \o PKL \o GZ
        ELSE first

\* The path of the gzipped copy is not yet computed.
NoPath == << >>

\* Variant of AlreadyOptimized that does not look at force.
AlreadyOptimized_any(exists, force) == exists

\* Line 90: os.path.exists(optimized_path) and not force
AlreadyOptimized(exists, force) == exists /\ ~force

\* What the file system can do during one call: to pickle.load of the
\* original, to the writing of the optimized file, to the writing of the
\* gzipped copy.
OptimizeOutcomes ==
    [ load : { "ok", "fails" },
      write : { "ok", "makedirs fails", "open fails", "dump fails" },
      gzip : { "ok", "open fails", "dump fails" } ]

\* A file that holds the whole pickle of a mapping.
PickleOf(data) == [exists |-> TRUE, complete |-> TRUE, content |-> data]

\* A file that was opened for writing and not written to its end.
Truncated == [exists |-> TRUE, complete |-> FALSE, content |-> EmptyMap]

\* A file that holds the whole gzip stream of the pickle of a mapping.
GzipOf(data) == [exists |-> TRUE, complete |-> TRUE, content |-> data, gzip |-> TRUE]

\* Lines 81-134.  The value returned, the files left at optimized_path and,
\* where it is another path, at gz_path, whether the original was opened, the
\* step that failed, what lines 115-116 left at optimized_path, and gz_path
\* as lines 122-124 computed it.  gzip.open writes to gz_path, be it the path
\* of another file or optimized_path itself.
optimize_pickle(original_file, optimized_file, gz_file, path, compress, force, io) ==
    IF ~original_file.exists
    THEN [value |-> FALSE, optimized |-> optimized_file, gz |-> gz_file,
          read |-> FALSE, failure |-> "original missing",
          pickled |-> NoFile, gz_path |-> NoPath]
    ELSE IF AlreadyOptimized(optimized_file.exists, force)
    THEN [value |-> TRUE, optimized |-> optimized_file, gz |-> gz_file,
          read |-> FALSE, failure |-> "none",
          pickled |-> NoFile, gz_path |-> NoPath]
    ELSE IF io.load = "fails" \/ ~original_file.complete
    THEN [value |-> FALSE, optimized |-> optimized_file, gz |-> gz_file,
          read |-> TRUE, failure |-> "load",
          pickled |-> NoFile, gz_path |-> NoPath]
    ELSE IF io.write \in { "makedirs fails", "open fails" }
    THEN [value |-> FALSE, optimized |-> optimized_file, gz |-> gz_file,
          read |-> TRUE, failure |-> "write",
          pickled |-> NoFile, gz_path |-> NoPath]
    ELSE IF io.write = "dump fails"
    THEN [value |-> FALSE, optimized |-> Truncated, gz |-> gz_file,
          read |-> TRUE, failure |-> "write",
          pickled |-> Truncated, gz_path |-> NoPath]
    ELSE LET data == converted(original_file.content)
             target == gz_path(path)
             copy == IF io.gzip = "ok" THEN GzipOf(data) ELSE Truncated
             opened == compress /\ io.gzip # "open fails"
         IN  [value |-> TRUE,
              optimized |-> IF opened /\ target = path THEN copy ELSE PickleOf(data),
              gz |-> IF opened /\ target # path THEN copy ELSE gz_file,
              read |-> TRUE,
              failure |-> IF compress /\ io.gzip # "ok" THEN "gzip" ELSE "none",
              pickled |-> PickleOf(data),
              gz_path |-> IF compress THEN target ELSE NoPath]

\* The mappings a pickle at original_path holds.
PickledMappings ==
    UNION { [K -> PickledValues] : K \in SUBSET PickledKeys }

\* A file left at optimized_path or gz_path by some earlier run.
StaleFile == PickleOf([k \in { << "D" >> } |-> OtherValue])

\* DataStore.py is not run.
RunIdle ==
    /\ pc = "not run"
    /\ sched = NoSched
    /\ BATCH_SIZE = 1
    /\ MAX_WORKERS = 1
    /\ csv = "not read"
    /\ tickers = << >>
    /\ all_data = EmptyMap
    /\ failed = << >>
    /\ retry_failed = << >>
    /\ batch_idx = 0
    /\ futures = << >>
    /\ save_path = NotSaved
    /\ disk = NoFile
    /\ loaded_data = NotLoaded
    /\ hist = NoHistory
    /\ fate = NoFate

\* optimize_pickle.py is started in a directory where the original is
\* missing, is no pickle, or holds a mapping, and where the optimized file
\* and the gzipped copy are missing or left by an earlier run.
InitOptimize ==
    /\ RunIdle
    /\ PlkIdle
    /\ GitIdle
    /\ opt_pc = "start"
    /\ args = NoArgs
    /\ original \in { NoFile, Truncated } \cup { PickleOf(m) : m \in PickledMappings }
    /\ optimized \in { NoFile, StaleFile }
    /\ gz \in { NoFile, StaleFile }
    /\ success = NotReturned
    /\ status = NotExited
    /\ opt_hist = NoOptHistory

\* Lines 138-143: the command line is parsed.
ParseArgs ==
    /\ opt_pc = "start"
    /\ \E output \in { NoOutput } \cup OutputPaths, compress \in BOOLEAN, force \in BOOLEAN :
          args' = [parsed |-> TRUE, original |-> OriginalPath, output |-> output,
                   compress |-> compress, force |-> force]
    /\ opt_pc' = "parsed"
    /\ UNCHANGED << original, optimized, gz, success, status, opt_hist >>
    /\ UNCHANGED << runvars, plkvars, gitvars >>

\* Lines 145-152: success = optimize_pickle(original, optimized, compress, force)
OptimizePickle ==
    /\ opt_pc = "parsed"
    /\ \E io \in OptimizeOutcomes :
          LET path == optimized_path(args.original, args.output)
              r == optimize_pickle(original, optimized, gz, path,
                                   args.compress, args.force, io)
          IN  /\ success' = [returned |-> TRUE, value |-> r.value]
              /\ optimized' = r.optimized
              /\ gz' = r.gz
              /\ opt_hist' = [called |-> TRUE,
                              before |-> [optimized |-> optimized, gz |-> gz],
                              optimized_path |-> path,
                              read |-> r.read,
                              failure |-> r.failure,
                              pickled |-> r.pickled,
                              gz_path |-> r.gz_path]
    /\ opt_pc' = "returned"
    /\ UNCHANGED << args, original, status >>
    /\ UNCHANGED << runvars, plkvars, gitvars >>

\* Lines 153-154: SystemExit(1) unless optimize_pickle returned True.
MainExit ==
    /\ opt_pc = "returned"
    /\ status' = [exited |-> TRUE, code |-> IF success.value THEN 0 ELSE 1]
    /\ opt_pc' = "exited"
    /\ UNCHANGED << args, original, optimized, gz, success, opt_hist >>
    /\ UNCHANGED << runvars, plkvars, gitvars >>

NextOptimize ==
    \/ ParseArgs
    \/ OptimizePickle
    \/ MainExit

Optimize == InitOptimize /\ [][NextOptimize]_vars

-----------------------------------------------------------------------------
(* plk.py, which loads the optimized file or makes it from the original *)

\* A "split" dict whose index is not in ascending order.
UnsortedSplit ==
    [index |-> << [day |-> 2, tz |-> "Asia/Kolkata"], [day |-> 1, tz |-> "Asia/Kolkata"] >>,
     columns |-> << "Close" >>,
     data |-> << << 4560 >>, << 1230 >> >>]

\* A dict of keyword arguments of pd.DataFrame.
KwargsDict == [data |-> << << 1230 >> >>, columns |-> << "Close" >>]

\* The values the original holds under one key.  The column labels are
\* strings, which line 40 leaves as they are.
PlkValues ==
    { GoodSplit, UnsortedSplit, RaggedSplit, KwargsDict, PlainDict, PickledTable,
      OtherValue }

PlkMappings ==
    UNION { [K -> PlkValues] : K \in SUBSET PickledKeys }

\* Line 43: the keyword arguments pd.DataFrame takes.
DataFrame_parameters == { "data", "index", "columns", "dtype", "copy" }

\* Line 43: pd.DataFrame(**v) raises on a keyword it does not take and on
\* rows that do not fit the columns; it is computed here for dicts that give
\* data and columns and leave the index to pandas.
kwargs_fit(v) ==
    /\ DOMAIN v \subseteq DataFrame_parameters
    /\ "data" \in DOMAIN v
    /\ "columns" \in DOMAIN v
    /\ "index" \notin DOMAIN v
    /\ \A i \in 1..Len(v.data) : Len(v.data[i]) = Len(v.columns)

\* Line 43: the table of a dict of data and columns, with the index 0, 1, ...
DataFrame_kwargs(v) ==
    [index |-> [i \in 1..Len(v.data) |-> i - 1],
     tz |-> "naive",
     columns |-> v.columns,
     data |-> v.data]

\* The order of the rows by index entry, rows of one entry in their order.
SortedOrder(index) ==
    LET n == Len(index)
    IN  CHOOSE q \in [1..n -> 1..n] :
           /\ \A i, j \in 1..n : i # j => q[i] # q[j]
           /\ \A i, j \in 1..n :
                 i < j => \/ index[q[i]] < index[q[j]]
                          \/ (index[q[i]] = index[q[j]] /\ q[i] < q[j])

\* Line 44: df.sort_index(ascending=True)
sort_index(df) ==
    LET q == SortedOrder(df.index)
    IN  [df EXCEPT !.index = [i \in 1..Len(df.index) |-> df.index[q[i]]],
                   !.data = [i \in 1..Len(df.data) |-> df.data[q[i]]]]

\* Lines 35-45 for a dict: whether the conversion raised, and the table.
dict_to_df(v) ==
    IF has_split_keys(v)
    THEN IF fits(v)
         THEN [raised |-> FALSE, value |-> sort_index(DataFrame_split(v))]
         ELSE [raised |-> TRUE, value |-> None]
    ELSE IF kwargs_fit(v)
    THEN [raised |-> FALSE, value |-> sort_index(DataFrame_kwargs(v))]
    ELSE [raised |-> TRUE, value |-> None]

\* Variant of converted_or_kept that stores None where the conversion raised.
converted_or_none(v) ==
    IF isinstance_dict(v)
    THEN dict_to_df(v).value
    ELSE v

\* Lines 35-47: data[k] after the loop body for one value.
converted_or_kept(v) ==
    IF isinstance_dict(v)
    THEN IF dict_to_df(v).raised THEN v ELSE dict_to_df(v).value
    ELSE v

\* What the file system can do during one call: to pickle.load of the
\* optimized file, to pickle.load of the original, to the writing of the
\* optimized file.
PlkOutcomes ==
    [ load_optimized : { "ok", "fails" },
      load_original : { "ok", "fails" },
      write : { "ok", "open fails", "dump fails" } ]

\* Lines 11-21: the optimized file is there and pickle.load returns.
optimized_loads(optimized_file, io) ==
    optimized_file.exists /\ optimized_file.complete /\ io.load_optimized = "ok"

\* Lines 6-58.  The value returned, the file left at optimized_path, whether
\* the optimized file was loaded, whether the original was opened, and the
\* step that failed.
load_and_optimize(original_file, optimized_file, io) ==
    IF optimized_loads(optimized_file, io)
    THEN [value |-> optimized_file.content, optimized |-> optimized_file,
          loaded |-> TRUE, read |-> FALSE, failure |-> "none"]
    ELSE IF ~original_file.exists
    THEN [value |-> EmptyMap, optimized |-> optimized_file,
          loaded |-> FALSE, read |-> FALSE, failure |-> "original missing"]
    ELSE IF io.load_original = "fails" \/ ~original_file.complete
    THEN [value |-> EmptyMap, optimized |-> optimized_file,
          loaded |-> FALSE, read |-> TRUE, failure |-> "load"]
    ELSE IF io.write = "open fails"
    THEN [value |-> EmptyMap, optimized |-> optimized_file,
          loaded |-> FALSE, read |-> TRUE, failure |-> "write"]
    ELSE IF io.write = "dump fails"
    THEN [value |-> EmptyMap, optimized |-> Truncated,
          loaded |-> FALSE, read |-> TRUE, failure |-> "write"]
    ELSE LET data == [k \in DOMAIN original_file.content |->
                         converted_or_kept(original_file.content[k])]
         IN  [value |-> data, optimized |-> PickleOf(data),
              loaded |-> FALSE, read |-> TRUE, failure |-> "none"]

\* Lines 60-63: plk.py is started where the original is missing, is no
\* pickle, or holds a mapping, and where the optimized file is missing, was
\* left by an earlier run, or is no pickle.
InitPlk ==
    /\ RunIdle
    /\ GitIdle
    /\ opt_pc = "idle"
    /\ args = NoArgs
    /\ gz = NoFile
    /\ success = NotReturned
    /\ status = NotExited
    /\ opt_hist = NoOptHistory
    /\ original \in { NoFile, Truncated } \cup { PickleOf(m) : m \in PlkMappings }
    /\ optimized \in { NoFile, StaleFile, Truncated }
    /\ plk_pc = "start"
    /\ plk_data = NotReturned
    /\ plk_hist = NoPlkHistory

\* Line 63: load_and_optimize(original_pickle, optimized_pickle)
LoadAndOptimize ==
    /\ plk_pc = "start"
    /\ \E io \in PlkOutcomes :
          LET r == load_and_optimize(original, optimized, io)
          IN  /\ plk_data' = [returned |-> TRUE, value |-> r.value]
              /\ optimized' = r.optimized
              /\ plk_hist' = [called |-> TRUE,
                              before |-> optimized,
                              loaded |-> r.loaded,
                              read |-> r.read,
                              failure |-> r.failure]
    /\ plk_pc' = "returned"
    /\ UNCHANGED << opt_pc, args, original, gz, success, status, opt_hist >>
    /\ UNCHANGED << runvars, gitvars >>

NextPlk == LoadAndOptimize

Plk == InitPlk /\ [][NextPlk]_vars

-----------------------------------------------------------------------------
(* git_auto_fixer.py *)

\* The commands run_command is given, without the branch name.
REV_PARSE_GIT_DIR == "git rev-parse --git-dir"
REV_PARSE_HEAD == "git rev-parse --abbrev-ref HEAD"
DIFF_INDEX == "git diff-index --quiet HEAD --"
PULL_REBASE == "git pull --rebase origin"
CONFIG_PULL_REBASE == "git config pull.rebase true"
CONFIG_FETCH_PRUNE == "git config fetch.prune true"
CONFIG_AUTOCRLF == "git config core.autocrlf input"
STATUS == "git status -s"

\* Lines 131-135: configs, in the order of the dict.
configs == << CONFIG_PULL_REBASE, CONFIG_FETCH_PRUNE, CONFIG_AUTOCRLF >>

\* Line 63
UNKNOWN == << "u", "n", "k", "n", "o", "w", "n" >>

\* What a shell command does: its exit status and what it writes to stdout.
GitDirOutcomes ==
    { [status |-> 0, stdout |-> << ".", "g", "i", "t", "\n" >>],
      [status |-> 128, stdout |-> << >>] }

BranchOutcomes ==
    { [status |-> 0, stdout |-> << "m", "a", "i", "n", "\n" >>],
      [status |-> 0, stdout |-> << "H", "E", "A", "D", "\n" >>],
      [status |-> 0, stdout |-> << "\n" >>],
      [status |-> 128, stdout |-> << >>] }

DiffIndexOutcomes ==
    { [status |-> 0, stdout |-> << >>],
      [status |-> 1, stdout |-> << >>],
      [status |-> 128, stdout |-> << >>] }

PlainOutcomes ==
    { [status |-> 0, stdout |-> << >>],
      [status |-> 1, stdout |-> << >>] }

\* The lines input() may read; EndOfFile when stdin is closed.
EndOfFile == << "EOF" >>

Answers ==
    { << "y" >>, << "Y" >>, << " ", "y", " " >>, << "n" >>, << >>,
      << "y", "e", "s" >>, << "Y", " ", "y" >> }

Whitespace == { " ", "\n", "\t" }

\* str.strip
RECURSIVE lstrip(_)
lstrip(t) ==
    IF t # << >> /\ Head(t) \in Whitespace THEN lstrip(Tail(t)) ELSE t

RECURSIVE rstrip(_)
rstrip(t) ==
    IF t # << >> /\ t[Len(t)] \in Whitespace THEN rstrip(SubSeq(t, 1, Len(t) - 1)) ELSE t

strip(t) == rstrip(lstrip(t))

\* str.lower, on the letters the answers are written with.
lower(t) ==
    [i \in 1..Len(t) |-> IF t[i] = "Y" THEN "y"
                         ELSE IF t[i] = "N" THEN "n"
                         ELSE t[i]]

\* Lines 30-46: the value run_command returns.
run_command(outcome, capture) ==
    IF outcome.status # 0 THEN None
    ELSE IF capture THEN [returned |-> strip(outcome.stdout)]
    ELSE [returned |-> TRUE]

\* One entry of the list of commands run.
Ran(cmd, arg, outcome) == [cmd |-> cmd, arg |-> arg, status |-> outcome.status]

\* Variant of has_uncommitted_changes that never finds a change.
has_uncommitted_changes_never(result) == FALSE

\* Line 59: return result is None
has_uncommitted_changes(result) == result = None

\* Line 64: return branch if branch else "unknown"
get_current_branch(result) ==
    IF result = None THEN UNKNOWN
    ELSE IF result.returned = << >> THEN UNKNOWN
    ELSE result.returned

\* Lines 146-149, 162-164: main calls fix_divergent_branches.
IsFix(arguments) == IF arguments = << >> THEN TRUE ELSE Head(arguments) = "fix"

Exited(code) == [exited |-> TRUE, code |-> code]

\* git_auto_fixer.py is started with at most one argument.
InitGitFix ==
    /\ RunIdle
    /\ PlkIdle
    /\ opt_pc = "idle"
    /\ args = NoArgs
    /\ original = NoFile
    /\ optimized = NoFile
    /\ gz = NoFile
    /\ success = NotReturned
    /\ status = NotExited
    /\ opt_hist = NoOptHistory
    /\ git_pc = "start"
    /\ argv \in { << >>, << "fix" >>, << "status" >>, << "config" >>, << "help" >> }
    /\ branch = << >>
    /\ answer = << >>
    /\ response = << >>
    /\ commands = << >>
    /\ git_exit = NotExited

\* Lines 66-72, 48-54: fix_divergent_branches checks the repository.
CheckGitRepo ==
    /\ git_pc = "start"
    /\ IsFix(argv)
    /\ \E outcome \in GitDirOutcomes :
          /\ commands' = Append(commands, Ran(REV_PARSE_GIT_DIR, << >>, outcome))
          /\ IF run_command(outcome, TRUE) = None
             THEN git_pc' = "exited" /\ git_exit' = Exited(1)
             ELSE git_pc' = "repo checked" /\ git_exit' = git_exit
    /\ UNCHANGED << argv, branch, answer, response >>
    /\ UNCHANGED << runvars, toolvars, plkvars >>

\* Lines 75-76, 61-64
GetCurrentBranch ==
    /\ git_pc = "repo checked"
    /\ \E outcome \in BranchOutcomes :
          /\ commands' = Append(commands, Ran(REV_PARSE_HEAD, << >>, outcome))
          /\ branch' = get_current_branch(run_command(outcome, TRUE))
    /\ git_pc' = "branch known"
    /\ UNCHANGED << argv, answer, response, git_exit >>
    /\ UNCHANGED << runvars, toolvars, plkvars >>

\* Lines 79-85, 56-59
HasUncommittedChanges ==
    /\ git_pc = "branch known"
    /\ \E outcome \in DiffIndexOutcomes :
          /\ commands' = Append(commands, Ran(DIFF_INDEX, << >>, outcome))
          /\ IF has_uncommitted_changes(run_command(outcome, TRUE))
             THEN git_pc' = "exited" /\ git_exit' = Exited(1)
             ELSE git_pc' = "clean" /\ git_exit' = git_exit
    /\ UNCHANGED << argv, branch, answer, response >>
    /\ UNCHANGED << runvars, toolvars, plkvars >>

\* Lines 88-96, 104-115
PullRebase ==
    /\ git_pc = "clean"
    /\ \E outcome \in PlainOutcomes :
          /\ commands' = Append(commands, Ran(PULL_REBASE, branch, outcome))
          /\ IF run_command(outcome, FALSE) # None
             THEN git_pc' = "pulled" /\ git_exit' = git_exit
             ELSE git_pc' = "exited" /\ git_exit' = Exited(1)
    /\ UNCHANGED << argv, branch, answer, response >>
    /\ UNCHANGED << runvars, toolvars, plkvars >>

\* Lines 98-104, 117: the answer is read, the default is set on 'y', and
\* main returns.  The result of the config command is not looked at.  With
\* stdin closed input() raises EOFError, which nothing catches.
OfferDefault ==
    /\ git_pc = "pulled"
    /\ \E line \in Answers \cup { EndOfFile } :
          /\ answer' = line
          /\ IF line = EndOfFile
             THEN /\ response' = response
                  /\ commands' = commands
                  /\ git_exit' = Exited(1)
             ELSE /\ response' = lower(strip(line))
                  /\ git_exit' = Exited(0)
                  /\ IF lower(strip(line)) = << "y" >>
                     THEN \E outcome \in PlainOutcomes :
                             commands' = Append(commands,
                                                Ran(CONFIG_PULL_REBASE, << >>, outcome))
                     ELSE commands' = commands
    /\ git_pc' = "exited"
    /\ UNCHANGED << argv, branch >>
    /\ UNCHANGED << runvars, toolvars, plkvars >>

\* Lines 150-151, 119-123
ShowGitStatus ==
    /\ git_pc = "start"
    /\ argv # << >>
    /\ Head(argv) = "status"
    /\ \E outcome \in PlainOutcomes :
          commands' = Append(commands, Ran(STATUS, << >>, outcome))
    /\ git_pc' = "exited"
    /\ git_exit' = Exited(0)
    /\ UNCHANGED << argv, branch, answer, response >>
    /\ UNCHANGED << runvars, toolvars, plkvars >>

\* Lines 152-153, 125-140
SetGitConfigDefaults ==
    /\ git_pc = "start"
    /\ argv # << >>
    /\ Head(argv) = "config"
    /\ \E outcomes \in [1..Len(configs) -> PlainOutcomes] :
          commands' = commands \o
                         [i \in 1..Len(configs) |-> Ran(configs[i], << >>, outcomes[i])]
    /\ git_pc' = "exited"
    /\ git_exit' = Exited(0)
    /\ UNCHANGED << argv, branch, answer, response >>
    /\ UNCHANGED << runvars, toolvars, plkvars >>

\* Lines 154-159
Usage ==
    /\ git_pc = "start"
    /\ argv # << >>
    /\ Head(argv) \notin { "fix", "status", "config" }
    /\ git_pc' = "exited"
    /\ git_exit' = Exited(0)
    /\ UNCHANGED << argv, branch, answer, response, commands >>
    /\ UNCHANGED << runvars, toolvars, plkvars >>

NextGitFix ==
    \/ CheckGitRepo
    \/ GetCurrentBranch
    \/ HasUncommittedChanges
    \/ PullRebase
    \/ OfferDefault
    \/ ShowGitStatus
    \/ SetGitConfigDefaults
    \/ Usage

GitFix == InitGitFix /\ [][NextGitFix]_vars

-----------------------------------------------------------------------------
(* save_stock_data and load_stock_data as functions of the collection *)

\* The symbols read_stock_list returns for a stock list that also names an
\* index with the exchange suffix.
SavedSymbols == Symbols \cup { AddSuffix(CARET \o << "N" >> \o NS) }

\* A table whose index has no time zone.
NaiveTable ==
    [index |-> << 1, 2 >>, tz |-> "naive", columns |-> << "Close" >>,
     data |-> << << 1230 >>, << 4560 >> >>]

\* The values of a collection: tables with and without a time zone, a dict
\* that has the keys of the "split" format already, and another object.
SavedValues == { ProviderTable, NaiveTable, GoodSplit, OtherValue }

\* The collections save_stock_data is called with.
ResultCollections ==
    UNION { [K -> SavedValues] : K \in (SUBSET SavedSymbols) \ { {} } }

\* The symbols of a set as a list.
ListOf(S) ==
    CHOOSE q \in SeqsUpTo(S, Cardinality(S)) : Range(q) = S

\* Line 218: save_stock_data is about to be called with a collection.
InitRoundTrip ==
    /\ ToolIdle
    /\ fate = NoFate
    /\ pc = "returned"
    /\ sched = NoSched
    /\ BATCH_SIZE = 1
    /\ MAX_WORKERS = 1
    /\ csv = "ok"
    /\ all_data \in ResultCollections
    /\ tickers = ListOf(DOMAIN all_data)
    /\ failed = << >>
    /\ retry_failed = << >>
    /\ batch_idx = 0
    /\ futures = << >>
    /\ save_path = NotSaved
    /\ disk = NoFile
    /\ loaded_data = NotLoaded
    /\ hist = NoHistory

NextRoundTrip ==
    \/ SaveStockData
    \/ LoadBack

RoundTrip == InitRoundTrip /\ [][NextRoundTrip]_vars

-----------------------------------------------------------------------------

Next ==
    \/ CheckShouldRun
    \/ MainGate
    \/ ReadStockList
    \/ MainEmpty
    \/ BeginDownload
    \/ SubmitBatch
    \/ \E i \in 1..Len(futures) : WorkerFinish(i)
    \/ \E i \in 1..Len(futures) : Collect(i)
    \/ BatchEnd
    \/ BatchLoopEnd
    \/ RetrySubmit
    \/ RetrySkip
    \/ \E i \in 1..Len(futures) : CollectRetry(i)
    \/ RetryEnd
    \/ SaveStockData
    \/ LoadBack

Spec == Init /\ [][Next]_vars

-----------------------------------------------------------------------------
(* download_batch_stocks when the outcome of every fetch call is fixed *)

\* Line 217: download_batch_stocks is about to be called with a ticker list
\* that read_stock_list returned, and every call of the provider will end as
\* fate says.
InitFixed ==
    /\ ToolIdle
    /\ pc = "have_tickers"
    /\ sched = NoSched
    /\ BATCH_SIZE \in 1..MaxBatchSize
    /\ MAX_WORKERS \in 1..MaxWorkers
    /\ csv = "ok"
    /\ \E file \in StockListFiles :
          /\ Len(file.symbols) \in 1..MaxFated
          /\ tickers = read_stock_list(file)
    /\ fate \in Fates(tickers)
    /\ all_data = EmptyMap
    /\ failed = << >>
    /\ retry_failed = << >>
    /\ batch_idx = 0
    /\ futures = << >>
    /\ save_path = NotSaved
    /\ disk = NoFile
    /\ loaded_data = NotLoaded
    /\ hist = NoHistory

NextFixed ==
    \/ BeginDownload
    \/ SubmitBatch
    \/ \E i \in 1..Len(futures) : WorkerFinish(i)
    \/ \E i \in 1..Len(futures) : Collect(i)
    \/ BatchEnd
    \/ BatchLoopEnd
    \/ RetrySubmit
    \/ RetrySkip
    \/ \E i \in 1..Len(futures) : CollectRetry(i)
    \/ RetryEnd

FixedOutcomes == InitFixed /\ [][NextFixed]_vars

-----------------------------------------------------------------------------
(* Properties *)

\* download_batch_stocks has returned (line 157) and save_stock_data has not
\* been called yet.
Returned == pc = "returned"

\* The batch loop has ended and the retry pass has not begun.
BatchPhaseEnded == pc = "retry_check"

CeilDiv(a, b) == (a + b - 1) \div b

RECURSIVE Concat(_)
Concat(qs) == IF qs = << >> THEN << >> ELSE Head(qs) \o Concat(Tail(qs))

\* The symbols of the futures of the open executor, in submission order.
Submitted == [i \in 1..Len(futures) |-> futures[i].ticker]

\* C1: a symbol of the ticker list for which no call returned a table is in
\* failed when the batch loop has ended, is in the failed list that
\* download_batch_stocks returns, and is at no time a key of all_data; and
\* every symbol of the ticker list is a key of the returned all_data or in
\* the returned failed list.
C1_NoDataStaysFailed ==
    /\ \A s \in Symbols : s \notin hist.gotData => s \notin DOMAIN all_data
    /\ BatchPhaseEnded =>
          \A s \in Range(tickers) : s \notin hist.gotData => s \in Range(failed)
    /\ Returned =>
          \A s \in Range(tickers) :
             /\ s \notin hist.gotData => s \in Range(failed)
             /\ s \in DOMAIN all_data \cup Range(failed)

\* A symbol was fetched in the batch phase and in the retry pass, never got
\* a table, and is in the returned failed list.
C1_Witness ==
    /\ Returned
    /\ \E s \in Range(tickers) :
          /\ s \notin hist.gotData
          /\ hist.fetches[s] >= 2
          /\ s \in Range(failed)
          /\ s \in Range(hist.failedAtBatchEnd)

\* C2: when the batch loop has ended it has formed ceil(L/B) batches, each of
\* 1 to B symbols, and the batches in loop order concatenate to the ticker
\* list.
C2_Batches ==
    hist.batchPhaseOver =>
        /\ Len(hist.batches) = CeilDiv(Len(tickers), BATCH_SIZE)
        /\ \A k \in 1..Len(hist.batches) :
              Len(hist.batches[k]) >= 1 /\ Len(hist.batches[k]) <= BATCH_SIZE
        /\ Concat(hist.batches) = tickers

\* The loop has ended for a list whose last batch is shorter than the others.
C2_Witness ==
    /\ hist.batchPhaseOver
    /\ Len(tickers) % BATCH_SIZE # 0
    /\ Len(hist.batches) >= 2
    /\ Len(hist.batches[Len(hist.batches)]) < BATCH_SIZE

C4_Original ==
    hist.retryFetches > 0 =>
        \E ceiling \in 1..Len(tickers) : Len(hist.failedAtBatchEnd) < ceiling

\* C4 as amended: the retry pass is made exactly when at least one symbol is
\* in failed at the end of the batch loop, however many there are; it fetches
\* every one of them, and with none there is no further fetch.
C4_RetryIffFailed ==
    /\ pc \in {"retry_drain", "returned"} =>
          (hist.retryPasses = 1 <=> hist.failedAtBatchEnd # << >>)
    /\ Returned =>
          /\ hist.failedAtBatchEnd = << >> => hist.retryFetches = 0
          /\ hist.failedAtBatchEnd # << >> =>
                hist.retryFetches = Len(hist.failedAtBatchEnd)

\* Every symbol of a list of two or more failed in the batch phase and every
\* one was fetched again.
C4_Witness ==
    /\ Returned
    /\ Len(tickers) >= 2
    /\ Len(hist.failedAtBatchEnd) = Len(tickers)
    /\ hist.retryFetches = Len(tickers)

\* C5: when the main thread takes the result of a call that overran the
\* timeout, the symbol is counted as failed and all_data is left as it is.
C5_LateResultDiscarded ==
    [][ \A i \in 1..Len(futures) :
           ( /\ futures[i].state = "done"
             /\ futures[i].outcome.overran
             /\ Len(futures') = Len(futures)
             /\ futures'[i].state = "collected" )
           => /\ all_data' = all_data
              /\ (failed' # failed \/ retry_failed' # retry_failed) ]_vars

\* A symbol the denylist holds, as read_stock_list returns it.
Denylisted(t) == \E d \in Denylist : t = AddSuffix(d)

\* C6: no symbol submitted to the executor is a denylisted symbol.
C6_NoDenylistedSubmitted ==
    \A i \in 1..Len(futures) : ~Denylisted(futures[i].ticker)

\* C7: once the stock list is read and the ticker list is empty, there is no
\* fetch, no result file, no call of save_stock_data, and the run does not
\* end by an exception.
C7_EmptyListStops ==
    (csv # "not read" /\ tickers = << >>) =>
        /\ pc \in {"have_tickers", "done"}
        /\ futures = << >>
        /\ \A s \in Symbols : hist.fetches[s] = 0
        /\ ~disk.exists
        /\ save_path = NotSaved
        /\ hist.saveOutcome = "none"

\* The run has ended after the stock list could not be read.
C7_Witness ==
    /\ pc = "done"
    /\ csv = "error"
    /\ tickers = << >>

\* C8: a finished call has left no exception in its future but the pair of
\* the symbol it was submitted with and, for a table with rows, that table,
\* else None; and the run ends by an exception only out of save_stock_data.
C8_NeverPropagates ==
    /\ \A i \in 1..Len(futures) :
          futures[i].state = "done" =>
             /\ ~futures[i].result.raised
             /\ futures[i].result.stock_code = futures[i].ticker
             /\ futures[i].result.data =
                   IF futures[i].outcome.kind = "table"
                      /\ futures[i].outcome.table.index # << >>
                   THEN futures[i].outcome.table
                   ELSE None
    /\ pc = "crashed" => hist.saveOutcome # "none"

\* The provider raised for one call and returned an empty table for another;
\* both results are waiting for the main thread.
C8_Witness ==
    \E i, j \in 1..Len(futures) :
       /\ futures[i].state = "done"
       /\ futures[i].outcome.kind \in {"error", "timeout"}
       /\ futures[i].result.data = None
       /\ futures[j].state = "done"
       /\ futures[j].outcome.kind = "table"
       /\ futures[j].outcome.table = EmptyTable

\* C9: whatever fails in save_stock_data, the call returns None and no
\* exception leaves it.
C9_SaveFailureReturnsNone ==
    hist.saveOutcome \notin {"none", "ok"} =>
        /\ pc # "crashed"
        /\ save_path = NonePath

\* C10: with RUN_FORCE set to 'true', check_should_run returns True.
C10_ForceRunReturnsTrue ==
    (pc = "checked" /\ sched.force_run) => sched.returned.result

\* The stage of the run the main thread is in: START (0), LOAD_LIST (1),
\* DISPATCH_BATCHES (2), RETRY_FAILED (3), SERIALIZE (4), DONE (5); the run
\* has ended otherwise (exit(0) of line 208, or an exception).
Stage ==
    CASE pc \in {"start", "checked"} -> 0
      [] pc \in {"read_list", "have_tickers"} -> 1
      [] pc \in {"batch_loop", "batch_drain"} -> 2
      [] pc \in {"retry_check", "retry_drain"} -> 3
      [] pc \in {"returned", "saved"} -> 4
      [] pc = "done" -> 5
      [] OTHER -> 6

\* C11: every step of a run stays in its stage or moves to the next one of
\* START, LOAD_LIST, DISPATCH_BATCHES, RETRY_FAILED, SERIALIZE, DONE (or ends
\* the run: at the gate, after LOAD_LIST for an empty list, or by an
\* exception of save_stock_data); the stock list is read once, before any
\* fetch, and fetches are made in the batch and retry stages only;
\* save_stock_data is called once, when every batch is done and every symbol
\* that failed has been fetched again; the file is loaded back only when
\* save_stock_data returned the path; and a run with an empty list goes from
\* LOAD_LIST to its end without a fetch or a file.
C11_RunOrder ==
    [][ /\ \/ Stage' = Stage
           \/ Stage < 5 /\ Stage' = Stage + 1 /\ (Stage = 1 => tickers # << >>)
           \/ Stage = 0 /\ pc' = "exit"
           \/ Stage = 1 /\ tickers = << >> /\ pc' = "done"
           \/ Stage = 4 /\ pc' = "crashed"
        /\ (csv' # csv \/ tickers' # tickers) =>
              /\ pc = "read_list"
              /\ csv = "not read"
              /\ \A s \in Symbols : hist.fetches[s] = 0
        /\ hist'.fetches # hist.fetches =>
              /\ csv # "not read"
              /\ Stage' \in {2, 3}
        /\ (hist'.saveOutcome # hist.saveOutcome \/ disk' # disk) =>
              /\ Returned
              /\ hist.saveOutcome = "none"
              /\ hist.batchPhaseOver
              /\ futures = << >>
              /\ Len(hist.batches) = CeilDiv(Len(tickers), BATCH_SIZE)
              /\ hist.retryFetches = Len(hist.failedAtBatchEnd)
        /\ loaded_data' # loaded_data =>
              /\ pc = "saved"
              /\ loaded_data'.loaded => (save_path = filepath /\ disk.exists)
        /\ (pc = "have_tickers" /\ tickers = << >>) =>
              /\ pc' = "done"
              /\ futures' = << >>
              /\ disk' = disk
              /\ hist' = hist
      ]_vars

\* A run has gone through every stage: two or more batches, a retry pass, a
\* saved file, and the file loaded back.
C11_Witness ==
    /\ pc = "done"
    /\ Len(hist.batches) >= 2
    /\ hist.retryPasses = 1
    /\ hist.saveOutcome = "ok"
    /\ loaded_data.assigned
    /\ loaded_data.loaded

\* The keys of all_data that download_batch_stocks returns when every fetch
\* call ends as f says: the symbols of the entries whose batch-phase call
\* gets rows and the symbols one of whose retry calls gets rows.
ExpectedKeys(list, f) ==
    { list[p] : p \in { q \in 1..Len(list) : f.batch[q] } }
       \cup { s \in Symbols : \E k \in 1..Len(f.retry[s]) : f.retry[s][k] }

\* The symbols of the failed list it returns: those one of whose retry calls
\* gets no rows.
ExpectedFailed(list, f) ==
    { s \in Symbols : \E k \in 1..Len(f.retry[s]) : ~f.retry[s][k] }

\* C12: with the outcome of every fetch call fixed, the key set of the
\* returned all_data and the set of symbols of the returned failed list are
\* those the outcomes give, in whatever order the futures complete and are
\* drained; and a step in which a worker's call ends changes neither all_data
\* nor failed nor retry_failed.
C12_OrderIndependent ==
    [][ /\ pc' = "returned" =>
              /\ DOMAIN all_data' = ExpectedKeys(tickers, fate)
              /\ Range(failed') = ExpectedFailed(tickers, fate)
        /\ ( /\ Len(futures') = Len(futures)
             /\ \E i \in 1..Len(futures) :
                   futures[i].state = "running" /\ futures'[i].state = "done" )
           => /\ all_data' = all_data
              /\ failed' = failed
              /\ retry_failed' = retry_failed
      ]_vars

\* download_batch_stocks has returned a failed list that is not in the order
\* of the ticker list: the calls were drained in another order than they
\* were submitted in, in the batch phase or in the retry pass.
C12_Witness ==
    /\ fate.fixed
    /\ Returned
    /\ Len(failed) = 2
    /\ \E p, q \in 1..Len(tickers) :
          /\ p < q
          /\ tickers[p] # tickers[q]
          /\ failed = << tickers[q], tickers[p] >>
    /\ DOMAIN all_data # {}

\* C13: the calls of download_single_stock that have begun and not ended are
\* at most MAX_WORKERS, in the batch phase and in the retry pass.
C13_AtMostMaxWorkersInFlight ==
    /\ Cardinality(Running(futures)) <= MAX_WORKERS
    /\ Running(futures) # {} => pc \in {"batch_drain", "retry_drain"}

\* In the retry pass MAX_WORKERS calls are in flight and another is waiting
\* for a thread.
C13_Witness ==
    /\ pc = "retry_drain"
    /\ MAX_WORKERS = MaxWorkers
    /\ Cardinality(Running(futures)) = MAX_WORKERS
    /\ Queued(futures) # {}

\* C14: the mapping save_stock_data has written has the keys new_key(s) of
\* the symbols s of all_data, one entry per symbol, and no entry for a symbol
\* of the failed list.
C14_SavedMapping ==
    (pc = "saved" /\ hist.saveOutcome = "ok") =>
        /\ DOMAIN disk.content = { new_key(s) : s \in DOMAIN all_data }
        /\ Cardinality(DOMAIN disk.content) = Cardinality(DOMAIN all_data)
        /\ \A s \in Range(failed) : new_key(s) \notin DOMAIN disk.content

C20_DelaysBetweenBatches ==
    LET last == CeilDiv(Len(tickers), BATCH_SIZE) - 1
    IN  /\ pc = "batch_drain" => hist.delays = batch_idx
        /\ pc = "batch_loop" =>
              hist.delays = IF batch_idx <= last THEN batch_idx ELSE last
        /\ hist.batchPhaseOver => hist.delays = last
        /\ last <= 0 => hist.delays = 0
        /\ pc = "start" =>
              \A L \in 1..MaxLength, B \in 1..MaxLength :
                 \A idx \in 0..(CeilDiv(L, B) - 1) :
                    DelayAfter(idx, L, B) <=> idx < CeilDiv(L, B) - 1

\* The retry pass runs after three batches, with two delays slept.
C20_Witness ==
    /\ pc = "retry_drain"
    /\ Len(hist.batches) = 3
    /\ hist.delays = 2

\* The file has been saved and loaded back.
LoadedBack == pc = "done" /\ loaded_data.assigned /\ loaded_data.loaded

\* The symbols of the collection stored under one key.
StoredAs(k) == { s \in DOMAIN all_data : new_key(s) = k }

OptimizeReturned == opt_pc \in { "returned", "exited" }

\* The file at the path lines 122-124 give the gzipped copy.
GzCopy ==
    IF gz_path(opt_hist.optimized_path) = opt_hist.optimized_path THEN optimized ELSE gz

\* C16: when the original exists, the optimized file exists and force is
\* False, optimize_pickle returns True, leaves the optimized file and the
\* gzipped copy as they were and does not open the original; when the
\* original and the optimized file exist and force is True, it opens the
\* original and, unless the load or the write fails, writes the conversion of
\* the original's mapping to the optimized file (lines 115-116), which is what
\* the file holds at the return where the gzipped copy has a path of its own;
\* when the original is missing, it returns False and leaves both files as
\* they were, whatever force is.
C16_SkipForceMissing ==
    OptimizeReturned =>
        LET before == opt_hist.before
        IN  /\ (original.exists /\ before.optimized.exists /\ ~args.force) =>
                  /\ success.value
                  /\ optimized = before.optimized
                  /\ gz = before.gz
                  /\ ~opt_hist.read
            /\ (original.exists /\ before.optimized.exists /\ args.force) =>
                  /\ opt_hist.read
                  /\ opt_hist.failure \in { "none", "gzip" } =>
                        /\ opt_hist.pickled =
                              PickleOf([k \in DOMAIN original.content |->
                                           convert_or_keep(original.content[k])])
                        /\ opt_hist.gz_path # opt_hist.optimized_path =>
                              optimized = opt_hist.pickled
            /\ ~original.exists =>
                  /\ ~success.value
                  /\ optimized = before.optimized
                  /\ gz = before.gz
                  /\ ~opt_hist.read

\* optimize_pickle was called with --compress and without --force where the
\* optimized file existed and the gzipped copy did not: it returned True and
\* wrote nothing.
C16_Witness ==
    /\ opt_pc = "exited"
    /\ original.exists
    /\ original.complete
    /\ ~args.force
    /\ args.compress
    /\ opt_hist.before.optimized = StaleFile
    /\ optimized = StaleFile
    /\ gz = NoFile
    /\ success.value

\* C17: main exits with status 1 when the original is missing or cannot be
\* loaded, when the optimized file cannot be written, and when the gzipped
\* copy asked for cannot be written; and it exits with status 0 only when the
\* optimized file, and with --compress the gzipped copy, is there in full.
C17_ExitStatus ==
    opt_pc = "exited" =>
        /\ opt_hist.failure # "none" => status.code = 1
        /\ status.code = 0 =>
              /\ optimized.exists /\ optimized.complete
              /\ args.compress => (GzCopy.exists /\ GzCopy.complete)

\* C18: when optimize_pickle has loaded the original and written the
\* optimized file, it has returned True whether or not a conversion raised,
\* and the mapping written has the keys of the original's mapping: under the
\* key of a value whose conversion raised that value, under every other key
\* the value convert_value_to_df returns for it.  The mapping written is the
\* one lines 115-116 dump, and the one the optimized file holds at the return
\* where the gzipped copy has a path of its own.
C18_ConversionErrorKept ==
    (OptimizeReturned /\ opt_hist.read /\ opt_hist.failure \in { "none", "gzip" }) =>
        /\ success.value
        /\ opt_hist.pickled.complete
        /\ DOMAIN opt_hist.pickled.content = DOMAIN original.content
        /\ \A k \in DOMAIN original.content :
              LET v == original.content[k]
              IN  opt_hist.pickled.content[k] =
                     IF convert_value_to_df(v).raised THEN v
                     ELSE convert_value_to_df(v).value
        /\ opt_hist.gz_path # opt_hist.optimized_path => optimized = opt_hist.pickled

\* The conversion raised for the value of one key and gave a table for the
\* value of another: the first is stored as it was, the second converted.
C18_Witness ==
    /\ opt_pc = "exited"
    /\ status.code = 0
    /\ opt_hist.read
    /\ optimized = opt_hist.pickled
    /\ \E k, m \in DOMAIN original.content :
          /\ convert_value_to_df(original.content[k]).raised
          /\ optimized.content[k] = original.content[k]
          /\ original.content[m] = GoodSplit
          /\ optimized.content[m] # GoodSplit
          /\ optimized.content[m].columns = EXPECTED_COLUMNS

\* C23: when download_batch_stocks has returned, no symbol is both a key of
\* all_data and an entry of failed, every symbol of the ticker list is one or
\* the other, and failed holds no symbol twice; also for ticker lists that
\* hold a symbol more than once.
C23_DisjointCover ==
    Returned =>
        /\ DOMAIN all_data \cap Range(failed) = {}
        /\ DOMAIN all_data \cup Range(failed) = Range(tickers)
        /\ \A s \in Range(failed) : Count(failed, s) = 1

\* C24: while a result of the current executor is not yet taken, no batch is
\* formed, no retry pass is started and the futures stay those of the same
\* executor; the retry pass is started only when the batch loop has ended,
\* with the futures of the last batch gone.
C24_OneBatchAtATime ==
    [][ /\ (\E i \in 1..Len(futures) : futures[i].state # "collected") =>
              /\ hist'.batches = hist.batches
              /\ hist'.retryPasses = hist.retryPasses
              /\ Len(futures') = Len(futures)
              /\ \A i \in 1..Len(futures) : futures'[i].ticker = futures[i].ticker
        /\ hist'.batches # hist.batches =>
              /\ ~hist.batchPhaseOver
              /\ \A i \in 1..Len(futures') :
                    futures'[i].ticker = hist'.batches[Len(hist'.batches)][i]
        /\ hist'.retryPasses # hist.retryPasses =>
              /\ hist.batchPhaseOver
              /\ Len(hist.batches) = CeilDiv(Len(tickers), BATCH_SIZE)
      ]_vars

\* A call of the retry pass is running after two batches.
C24_Witness ==
    /\ pc = "retry_drain"
    /\ Len(hist.batches) >= 2
    /\ Running(futures) # {}

\* C25: when optimize_pickle was called with compress=True and has written
\* the optimized file, the path of the gzipped copy ends with '.pkl.gz' and
\* is not optimized_path, and the optimized file still holds the pickle that
\* lines 115-116 wrote.
C25_GzPathApart ==
    (OptimizeReturned /\ opt_hist.gz_path # NoPath) =>
        /\ endswith(opt_hist.gz_path, PKL \o GZ)
        /\ opt_hist.gz_path # opt_hist.optimized_path
        /\ optimized = opt_hist.pickled

\* C21: when load_and_optimize has returned: if the optimized file was there
\* and loaded, it returned the file's contents, did not open the original and
\* left the optimized file as it was; if the optimized file was there and did
\* not load while the original exists, it opened the original and, unless the
\* load of the original or the write failed, left the returned mapping in the
\* optimized file; if the optimized file was not loaded and the original is
\* missing, it returned the empty mapping and wrote nothing; and the mapping
\* made from the original has the original's keys, with the original value
\* under every key whose conversion raised, in the value returned and in the
\* file.
C21_LoadAndOptimize ==
    plk_pc = "returned" =>
        LET before == plk_hist.before
        IN  /\ plk_hist.loaded =>
                  /\ before.exists
                  /\ plk_data.value = before.content
                  /\ optimized = before
                  /\ ~plk_hist.read
            /\ (before.exists /\ ~plk_hist.loaded /\ original.exists) =>
                  /\ plk_hist.read
                  /\ plk_hist.failure = "none" => optimized = PickleOf(plk_data.value)
            /\ (~plk_hist.loaded /\ ~original.exists) =>
                  /\ plk_data.value = EmptyMap
                  /\ optimized = before
                  /\ ~plk_hist.read
            /\ (plk_hist.read /\ plk_hist.failure = "none") =>
                  /\ DOMAIN plk_data.value = DOMAIN original.content
                  /\ optimized.content = plk_data.value
                  /\ \A k \in DOMAIN original.content :
                        LET v == original.content[k]
                        IN  (isinstance_dict(v) /\ dict_to_df(v).raised) =>
                               plk_data.value[k] = v

\* The optimized file was there and did not load; the original was used, one
\* of its values failed to convert and is returned and saved as it was, the
\* other was converted and its rows sorted, and the optimized file was
\* overwritten.
C21_Witness ==
    /\ plk_pc = "returned"
    /\ plk_hist.before = Truncated
    /\ plk_hist.read
    /\ plk_hist.failure = "none"
    /\ optimized = PickleOf(plk_data.value)
    /\ \E k, m \in DOMAIN original.content :
          /\ original.content[k] = RaggedSplit
          /\ plk_data.value[k] = RaggedSplit
          /\ original.content[m] = UnsortedSplit
          /\ plk_data.value[m].index = << 1, 2 >>

\* The places in the list of commands run where cmd was run with a status
\* among those given.
RanAt(cmd, statuses) ==
    { i \in 1..Len(commands) : commands[i].cmd = cmd /\ commands[i].status \in statuses }

AnyStatus == { 0, 1, 128 }

\* C22: in a run of fix_divergent_branches, every 'git pull --rebase' comes
\* after a repository check that succeeded and after a 'git diff-index' that
\* found no change; once one of the two checks has failed the program has
\* exited with status 1 and has run no pull; once the pull has failed the
\* program has exited with status 1; and every 'git config pull.rebase true'
\* comes after a pull that succeeded, with a response that is 'y' (line 99:
\* the line read, stripped and in lower case).
C22_PullAfterChecks ==
    IsFix(argv) =>
        /\ \A i \in RanAt(PULL_REBASE, AnyStatus) :
              /\ \E j \in RanAt(REV_PARSE_GIT_DIR, { 0 }) : j < i
              /\ \E j \in RanAt(DIFF_INDEX, { 0 }) : j < i
        /\ (RanAt(REV_PARSE_GIT_DIR, { 1, 128 }) # {} \/ RanAt(DIFF_INDEX, { 1, 128 }) # {}) =>
              /\ git_exit = Exited(1)
              /\ RanAt(PULL_REBASE, AnyStatus) = {}
        /\ RanAt(PULL_REBASE, { 1, 128 }) # {} => git_exit = Exited(1)
        /\ \A i \in RanAt(CONFIG_PULL_REBASE, AnyStatus) :
              /\ \E j \in RanAt(PULL_REBASE, { 0 }) : j < i
              /\ response = << "y" >>

\* The two checks passed, the pull succeeded, the answer was 'Y' and the
\* default was set.
C22_Witness ==
    /\ IsFix(argv)
    /\ git_exit = Exited(0)
    /\ answer = << "Y" >>
    /\ Len(commands) = 5
    /\ commands[1].cmd = REV_PARSE_GIT_DIR
    /\ commands[3].cmd = DIFF_INDEX
    /\ commands[4].cmd = PULL_REBASE
    /\ commands[4].status = 0
    /\ commands[5].cmd = CONFIG_PULL_REBASE

====
